---- MODULE Spec2Model ----
(***************************************************************************)
(* A model of icepack's dataset acquisition and caching pipeline           *)
(* (src/src/icepack/datasets.py): URL resolution against the catalog,      *)
(* retrieval through the on-disk cache, the post-download processors and   *)
(* the glacier-outline fetcher.                                            *)
(*                                                                         *)
(* File names are records [stem, ext]; a path or a URL is a sequence of    *)
(* names, so that pathlib's .name is the last component and .suffix its    *)
(* ext.  A Python value that is either a str path or a list is a record    *)
(* [kind, path, items], so that a path, a list and a list of lists are     *)
(* three different values.                                                 *)
(***************************************************************************)
EXTENDS Integers, Sequences, FiniteSets, TLC

VARIABLES
    \* ---- _recursive_unzip applied to one archive
    uArchive,    \* the entries of the top-level archive
    uDone,       \* whether _recursive_unzip has returned
    uResult,     \* the list it returned
    \* ---- fetch_outline
    opc,         \* position inside fetch_outline
    oName,       \* argument name of the running call
    oCommit,     \* argument commit of the running call
    oCache,      \* the cached outlines: file name -> the commit whose content it holds
    oNet,        \* network accesses made by the running call
    oCalls,      \* the finished calls, in order
    oDeleted,    \* whether a cached outline was ever deleted from outside
    \* ---- _fetch_nsidc and fetch_randolph_glacier_inventory
    fpc,         \* position inside the running fetch
    fCall,       \* the entry point and its keyword arguments
    fColl,       \* what earthaccess.search_datasets returned
    fGran,       \* what earthaccess.search_data returned
    urls,       \* urls
    fIdx,        \* index of the URL the list comprehension is at
    filenames,  \* filenames: one value per retrieved URL
    fCache,      \* the cache directory: file name -> content
    all_filenames,        \* what _fetch_nsidc returned
    fResult,     \* what the entry point returned
    fErr,        \* the exception the entry point raised, "" when none
    fLog         \* the calls made to the collaborators, in order

uvars == <<uArchive, uDone, uResult>>
ovars == <<opc, oName, oCommit, oCache, oNet, oCalls, oDeleted>>
fvars == <<fpc, fCall, fColl, fGran, urls, fIdx, filenames, fCache,
           all_filenames, fResult, fErr, fLog>>
vars == <<uvars, ovars, fvars>>

-----------------------------------------------------------------------------
(* Names, paths and Python values *)

Name(stem, ext) == [stem |-> stem, ext |-> ext]

\* pathlib.Path(p).suffix
Suffix(p) == IF Len(p) = 0 THEN "" ELSE p[Len(p)].ext

\* pathlib.Path(p).name
Basename(p) == p[Len(p)]

PathV(p) == [kind |-> "path", path |-> p, items |-> <<>>]
ListV(s) == [kind |-> "list", path |-> <<>>, items |-> s]

RECURSIVE Flatten(_)
Flatten(s) ==
    IF Len(s) = 0 THEN <<>> ELSE Head(s) \o Flatten(Tail(s))

Range(s) == {s[k] : k \in 1..Len(s)}

-----------------------------------------------------------------------------
(* Archives: an entry is [stem, ext, content]; content is the entries of   *)
(* the entry when it is itself an archive.                                 *)

File(stem, ext) == [stem |-> stem, ext |-> ext, content |-> <<>>]
Zip(stem, content) == [stem |-> stem, ext |-> ".zip", content |-> content]

\* pooch.Unzip()(fname, action, pup): the paths of the extracted entries.
\* The ".unzip" suffix of the extraction directory is left out of the path.
Unzip(fname, archive) ==
    [k \in 1..Len(archive) |-> Append(fname, Name(archive[k].stem, archive[k].ext))]

\* results.extend(inner_filenames) for each top-level entry that is a .zip
InnerResults(fname, archive) ==
    LET top_filenames == Unzip(fname, archive)
    IN  Flatten([k \in 1..Len(archive) |->
                    IF Suffix(top_filenames[k]) = ".zip"
                    THEN Unzip(top_filenames[k], archive[k].content)
                    ELSE <<>>])

IsShp(r) == Suffix(r) = ".shp"

_recursive_unzip(fname, archive) ==
    SelectSeq(InnerResults(fname, archive), IsShp)

-----------------------------------------------------------------------------
(* The bounded archives _recursive_unzip is applied to *)

MaxTop == 2      \* entries of the top-level archive
MaxInner == 2    \* entries of an archive nested one level
MaxDeep == 1     \* entries of an archive nested two levels

SeqsUpTo(S, n) == UNION {[1..k -> S] : k \in 0..n}

LeafEntries == {File("alaska", e) : e \in {".shp", ".txt", ""}}
DeepArchives == SeqsUpTo(LeafEntries, MaxDeep)
InnerEntries == LeafEntries \cup {Zip("alaska", c) : c \in DeepArchives}
InnerArchives == SeqsUpTo(InnerEntries, MaxInner)
TopEntries == LeafEntries \cup {Zip("alaska", c) : c \in InnerArchives}
TopArchives == SeqsUpTo(TopEntries, MaxTop)

TopName == <<Name("RGI2000-v7.0-G-global", ".zip")>>

UIdle == /\ uArchive = <<>>
         /\ uDone = FALSE
         /\ uResult = <<>>

-----------------------------------------------------------------------------
(* fetch_outline *)

\* lines 127-130
get_glacier_names ==
    <<"amery", "filchner-ronne", "getz", "helheim", "hiawatha", "jakobshavn",
      "larsen-2015", "larsen-2018", "larsen-2019", "pine-island", "ross">>

default_commit == "5906b7c21d844a982aa012e934fe29b31ef13d41"

\* commit=None is the string "None" here; "" is the empty str, also falsy
NoCommit == "None"

\* commit or default_commit
EffectiveCommit(commit) ==
    IF commit = NoCommit \/ commit = "" THEN default_commit ELSE commit

outlines_url == "https://raw.githubusercontent.com/icepack/glacier-meshes"

\* the URL with the version marker left out
OutlineUrl_NoCommit(name, commit) ==
    outlines_url \o "/glaciers/" \o name \o ".geojson"

\* f"{outlines_url}/{commit or default_commit}/glaciers/{name}.geojson"
OutlineUrl(name, commit) ==
    outlines_url \o "/" \o EffectiveCommit(commit) \o "/glaciers/" \o name \o ".geojson"

CacheDir == Name("icepack", "")

\* the file named after the name and the version marker
OutlineFname_ByCommit(name, commit) ==
    Name(name \o "-" \o EffectiveCommit(commit), ".geojson")

\* fname=f"{name}.geojson": the cache key of an outline
OutlineFname(name, commit) == Name(name, ".geojson")

\* path / fname
OutlinePath(name, commit) == <<CacheDir, OutlineFname(name, commit)>>

Absent == "<absent>"

\* pooch.retrieve with known_hash=None: an existing file is a cache hit
FileExists_Never(cache, key) == FALSE

FileExists(cache, key) == cache[key] # Absent

MaxCalls == 3    \* fetch_outline calls in one behaviour

CallNames == {"helheim", "ross", "not-a-real-glacier"}
CallCommits == {NoCommit, "", default_commit, "c0ffee"}
OutlineKeys == {OutlineFname(n, c) : n \in CallNames, c \in CallCommits}

OIdle == /\ opc = "idle"
         /\ oName = ""
         /\ oCommit = NoCommit
         /\ oCache = [k \in OutlineKeys |-> Absent]
         /\ oNet = 0
         /\ oCalls = <<>>
         /\ oDeleted = FALSE

\* what a finished call did: its arguments, the URL it built ("" when it
\* built none), the exception it raised ("" when it returned), the path it
\* returned, whether it wrote the file, its network accesses, and the cache
\* before and after it
CallRecord(url, err, path, downloaded, net, after) ==
    [name |-> oName, commit |-> oCommit, url |-> url, err |-> err,
     path |-> path, downloaded |-> downloaded, net |-> net,
     before |-> oCache, after |-> after]

OutlineCall(name, commit) ==
    /\ opc = "idle"
    /\ Len(oCalls) < MaxCalls
    /\ opc' = "validate"
    /\ oName' = name
    /\ oCommit' = commit
    /\ oNet' = 0
    /\ UNCHANGED <<oCache, oCalls, oDeleted, uvars, fvars>>

\* line 135-136: the message of the ValueError reads the undefined global
\* `names`, so building it raises NameError before ValueError is raised
OutlineValidateFail ==
    /\ opc = "validate"
    /\ oName \notin Range(get_glacier_names)
    /\ oCalls' = Append(oCalls, CallRecord("", "NameError", <<>>, FALSE, oNet, oCache))
    /\ opc' = "idle"
    /\ UNCHANGED <<oName, oCommit, oCache, oNet, oDeleted, uvars, fvars>>

OutlineValidateOk ==
    /\ opc = "validate"
    /\ oName \in Range(get_glacier_names)
    /\ opc' = "retrieve"
    /\ UNCHANGED <<oName, oCommit, oCache, oNet, oCalls, oDeleted, uvars, fvars>>

\* line 142, the file exists: returned without any transfer
OutlineRetrieveHit ==
    /\ opc = "retrieve"
    /\ FileExists(oCache, OutlineFname(oName, oCommit))
    /\ oCalls' = Append(oCalls,
            CallRecord(OutlineUrl(oName, oCommit), "", OutlinePath(oName, oCommit),
                       FALSE, oNet, oCache))
    /\ opc' = "idle"
    /\ UNCHANGED <<oName, oCommit, oCache, oNet, oDeleted, uvars, fvars>>

\* line 142, the file is absent: the URL's content is written under fname
OutlineRetrieveDownload ==
    /\ opc = "retrieve"
    /\ ~FileExists(oCache, OutlineFname(oName, oCommit))
    /\ LET after == [oCache EXCEPT ![OutlineFname(oName, oCommit)] =
                                        EffectiveCommit(oCommit)]
       IN  /\ oCache' = after
           /\ oCalls' = Append(oCalls,
                   CallRecord(OutlineUrl(oName, oCommit), "", OutlinePath(oName, oCommit),
                              TRUE, oNet + 1, after))
    /\ oNet' = oNet + 1
    /\ opc' = "idle"
    /\ UNCHANGED <<oName, oCommit, oDeleted, uvars, fvars>>

\* line 142, the file is absent and the transfer fails: nothing is written
OutlineRetrieveError ==
    /\ opc = "retrieve"
    /\ ~FileExists(oCache, OutlineFname(oName, oCommit))
    /\ oCalls' = Append(oCalls,
            CallRecord(OutlineUrl(oName, oCommit), "HTTPError", <<>>, FALSE,
                       oNet + 1, oCache))
    /\ oNet' = oNet + 1
    /\ opc' = "idle"
    /\ UNCHANGED <<oName, oCommit, oCache, oDeleted, uvars, fvars>>

\* the environment removes a cached outline between two calls
ExternalDelete(key) ==
    /\ opc = "idle"
    /\ oCache[key] # Absent
    /\ oCache' = [oCache EXCEPT ![key] = Absent]
    /\ oDeleted' = TRUE
    /\ UNCHANGED <<opc, oName, oCommit, oNet, oCalls, uvars, fvars>>

-----------------------------------------------------------------------------
(* _fetch_nsidc: the catalog, the cache and the processors *)

NoName == "None"

MaxRecords == 2   \* records in one catalog answer
MaxBases == 2     \* "get-data" URLs of a collection record
MaxLinks == 2     \* data links of a granule record

Base1 == <<Name("https://host/data", "")>>
Base2 == <<Name("https://mirror/data", "")>>

LinkUrls ==
    {<<Name("https://host/granules", ""), Name("a", ".nc")>>,
     <<Name("https://host/granules", ""), Name("b", ".nc")>>,
     <<Name("https://mirror/granules", ""), Name("a", ".nc")>>}

\* the exceptions a catalog query can end with, besides returning
QueryErrors == {"KeyError", "RuntimeError"}

\* a collection record: whether summary() has the key "get-data", and its list
CollectionRecords ==
    {[hasGetData |-> FALSE, getData |-> <<>>]}
        \cup {[hasGetData |-> TRUE, getData |-> g] : g \in SeqsUpTo({Base1, Base2}, MaxBases)}

OtherCollection == [hasGetData |-> TRUE, getData |-> <<Base2>>]

CollectionResults ==
    {<<>>} \cup {<<r>> \o [k \in 1..n |-> OtherCollection] :
                    r \in CollectionRecords, n \in {0, MaxRecords - 1}}

\* a granule record: its data_links()
GranuleRecords == {[links |-> l] : l \in SeqsUpTo(LinkUrls, MaxLinks)}

OtherGranule == [links |-> <<>>]

GranuleResults ==
    {<<>>} \cup {<<r>> \o [k \in 1..n |-> OtherGranule] :
                    r \in GranuleRecords, n \in {0, MaxRecords - 1}}

Outcomes(results) ==
    {[raises |-> e, results |-> <<>>] : e \in QueryErrors}
        \cup {[raises |-> "", results |-> r] : r \in results}

NotQueried == [raises |-> "", results |-> <<>>]

\* lines 42-45: search_datasets, then results[0].summary()["get-data"][0]
ResolveMetadata(out, extra, filename) ==
    IF out.raises # "" THEN [err |-> out.raises, urls |-> <<>>]
    ELSE IF Len(out.results) = 0 THEN [err |-> "IndexError", urls |-> <<>>]
    ELSE IF ~out.results[1].hasGetData THEN [err |-> "KeyError", urls |-> <<>>]
    ELSE IF Len(out.results[1].getData) = 0 THEN [err |-> "IndexError", urls |-> <<>>]
    ELSE [err |-> "", urls |-> <<out.results[1].getData[1] \o extra \o <<filename>>>>]

\* lines 47-48: search_data, then results[0].data_links(); an empty answer
\* returned as no URLs instead of raising
ResolveGranule_Soft(out) ==
    IF out.raises # "" THEN [err |-> out.raises, urls |-> <<>>]
    ELSE IF Len(out.results) = 0 THEN [err |-> "", urls |-> <<>>]
    ELSE [err |-> "", urls |-> out.results[1].links]

ResolveGranule(out) ==
    IF out.raises # "" THEN [err |-> out.raises, urls |-> <<>>]
    ELSE IF Len(out.results) = 0 THEN [err |-> "IndexError", urls |-> <<>>]
    ELSE [err |-> "", urls |-> out.results[1].links]

\* ---- file contents
Contents == {"data", "rgi-many", "rgi-one", "rgi-none"}

IsArchive(c) == c # "data"

ArchiveOf(c) ==
    CASE c = "rgi-many" ->
            <<Zip("alaska", <<File("north", ".shp"), File("south", ".shp"),
                              File("north", ".dbf")>>),
              Zip("iceland", <<File("iceland", ".shp"),
                               Zip("deep", <<File("deep", ".shp")>>)>>),
              File("global", ".shp"),
              File("readme", ".txt")>>
      [] c = "rgi-one" -> <<Zip("iceland", <<File("iceland", ".shp")>>)>>
      [] OTHER -> <<File("readme", ".txt")>>


\* ---- processors
Processors == {"none", "decompress", "recursive_unzip"}

\* line 83 and 85: pooch.Decompress(name=filename)
DecompressName == Name("moa750_2009_hp1_v02.0", ".tif")

FullPath(fname) == <<CacheDir, fname>>

PathVs(paths) == [k \in 1..Len(paths) |-> PathV(paths[k])]

\* pooch.retrieve's last step: the processor's return value, or the path.
\* The files a processor writes beside the download are not URL basenames
\* and are never looked up by pooch.retrieve, so the cache does not hold them.
Process(processor, fname, content) ==
    CASE processor = "none" ->
            [err |-> "", value |-> PathV(FullPath(fname))]
      [] processor = "decompress" ->
            IF fname.ext = ".gz"
            THEN [err |-> "", value |-> PathV(FullPath(DecompressName))]
            ELSE [err |-> "ValueError", value |-> ListV(<<>>)]
      [] OTHER ->
            IF IsArchive(content)
            THEN [err |-> "",
                  value |-> ListV(PathVs(_recursive_unzip(FullPath(fname), ArchiveOf(content))))]
            ELSE [err |-> "BadZipFile", value |-> ListV(<<>>)]

\* line 53 and line 122
Unwrap(fs) ==
    IF Len(fs) = 1 THEN fs[1] ELSE ListV(fs)

\* `name in f`: for a str path, whether the name occurs in it (names are
\* whole tokens here, so: whether a component's stem is the name); for a list,
\* whether the name is one of its elements
NameIn(name, f) ==
    IF f.kind = "path"
    THEN \E k \in 1..Len(f.path) : f.path[k].stem = name
    ELSE \E k \in 1..Len(f.items) :
            /\ f.items[k].kind = "path"
            /\ f.items[k].path = <<Name(name, "")>>

\* line 118
RgiSelect(all, name) ==
    LET Test(f) == NameIn(name, f)
    IN  SelectSeq(all.items, Test)

\* ---- the entry points and their keyword arguments
RgiNames == {NoName, "alaska", "iceland", "antarctica"}

RgiFilename == Name("RGI2000-v7.0-G-global", ".zip")
MoaFilename == Name("moa750_2009_hp1_v02.0.tif", ".gz")

\* what the server sends for a URL: the inventory is an archive of one of
\* three shapes, granule a.nc is an archive, every other file is plain data
RemoteContents(url) ==
    IF Basename(url) = RgiFilename THEN {"rgi-many", "rgi-one", "rgi-none"}
    ELSE IF Basename(url) = Name("a", ".nc") THEN {"rgi-one"}
    ELSE {"data"}

DirectCalls ==
    {[fn |-> "_fetch_nsidc", hasExtra |-> e, hasFilename |-> f,
      extra |-> <<Name("geotiff", "")>>, filename |-> MoaFilename,
      processor |-> p, name |-> NoName] :
        e \in BOOLEAN, f \in BOOLEAN, p \in Processors}

RgiCalls ==
    {[fn |-> "fetch_randolph_glacier_inventory", hasExtra |-> TRUE, hasFilename |-> TRUE,
      extra |-> <<Name("global_files", "")>>, filename |-> RgiFilename,
      processor |-> "recursive_unzip", name |-> n] : n \in RgiNames}

CacheNames == {MoaFilename, RgiFilename} \cup {Basename(u) : u \in LinkUrls}

NoValue == ListV(<<>>)

Ev(ev, i, what, present) == [ev |-> ev, i |-> i, what |-> what, present |-> present]

FIdle == /\ fpc = "idle"
         /\ fCall = [fn |-> "", hasExtra |-> FALSE, hasFilename |-> FALSE,
                     extra |-> <<>>, filename |-> MoaFilename,
                     processor |-> "none", name |-> NoName]
         /\ fColl = NotQueried
         /\ fGran = NotQueried
         /\ urls = <<>>
         /\ fIdx = 0
         /\ filenames = <<>>
         /\ fCache = [n \in CacheNames |-> Absent]
         /\ all_filenames = NoValue
         /\ fResult = NoValue
         /\ fErr = ""
         /\ fLog = <<>>

Fname == Basename(urls[fIdx])

Raised(e) == <<Ev("raise", 0, e, FALSE)>>

\* an entry point is called: lines 34-39 and 110-114
FetchCall(c) ==
    /\ fpc \in {"idle", "done", "raised"}
    /\ fpc' = "try"
    /\ fCall' = c
    /\ fColl' = NotQueried
    /\ fGran' = NotQueried
    /\ urls' = <<>>
    /\ fIdx' = 0
    /\ filenames' = <<>>
    /\ all_filenames' = NoValue
    /\ fResult' = NoValue
    /\ fErr' = ""
    /\ fLog' = <<>>
    /\ UNCHANGED <<fCache, uvars, ovars>>

\* lines 42-43 and 46: kwargs["extra"] or kwargs["filename"] raises KeyError
TryMissingKwarg ==
    /\ fpc = "try"
    /\ ~(fCall.hasExtra /\ fCall.hasFilename)
    /\ fpc' = "except"
    /\ UNCHANGED <<fCall, fColl, fGran, urls, fIdx, filenames, fCache,
                   all_filenames, fResult, fErr, fLog, uvars, ovars>>

\* lines 44-46: the collection query inside the try block; a KeyError raised
\* anywhere in it is caught by `except KeyError`
SearchDatasets(out) ==
    /\ fpc = "try"
    /\ fCall.hasExtra /\ fCall.hasFilename
    /\ LET r == ResolveMetadata(out, fCall.extra, fCall.filename)
       IN  /\ fColl' = out
           /\ fLog' = Append(fLog, Ev("search_datasets", Len(out.results), out.raises, FALSE))
                        \o (IF r.err # "" THEN Raised(r.err) ELSE <<>>)
           /\ fpc' = IF r.err = "KeyError" THEN "except"
                     ELSE IF r.err # "" THEN "raised" ELSE "retrieve"
           /\ fErr' = IF r.err = "KeyError" THEN "" ELSE r.err
           /\ urls' = r.urls
           /\ fIdx' = IF r.err = "" THEN 1 ELSE 0
    /\ UNCHANGED <<fCall, fGran, filenames, fCache, all_filenames, fResult, uvars, ovars>>

\* lines 47-48: the granule query inside the except block
SearchData(out) ==
    /\ fpc = "except"
    /\ LET r == ResolveGranule(out)
       IN  /\ fGran' = out
           /\ fLog' = Append(fLog, Ev("search_data", Len(out.results), out.raises, FALSE))
                        \o (IF r.err # "" THEN Raised(r.err) ELSE <<>>)
           /\ fpc' = IF r.err # "" THEN "raised"
                     ELSE IF Len(r.urls) = 0 THEN "return" ELSE "retrieve"
           /\ fErr' = r.err
           /\ urls' = r.urls
           /\ fIdx' = IF r.err = "" /\ Len(r.urls) > 0 THEN 1 ELSE 0
    /\ UNCHANGED <<fCall, fColl, filenames, fCache, all_filenames, fResult, uvars, ovars>>

\* line 51, pooch.retrieve finds the file in the cache: no transfer, no hash
RetrieveHit ==
    /\ fpc = "retrieve"
    /\ FileExists(fCache, Fname)
    /\ fLog' = Append(fLog, Ev("check", fIdx, "", fCache[Fname] # Absent))
    /\ fpc' = "process"
    /\ UNCHANGED <<fCall, fColl, fGran, urls, fIdx, filenames, fCache,
                   all_filenames, fResult, fErr, uvars, ovars>>

\* line 51, pooch.retrieve finds no such file: the downloader is called
RetrieveMiss ==
    /\ fpc = "retrieve"
    /\ ~FileExists(fCache, Fname)
    /\ fLog' = Append(fLog, Ev("check", fIdx, "", fCache[Fname] # Absent))
    /\ fpc' = "login"
    /\ UNCHANGED <<fCall, fColl, fGran, urls, fIdx, filenames, fCache,
                   all_filenames, fResult, fErr, uvars, ovars>>

\* lines 26-28: earthaccess.login() returns
LoginOk ==
    /\ fpc = "login"
    /\ fLog' = Append(fLog, Ev("login", fIdx, "", FALSE))
    /\ fpc' = "transfer"
    /\ UNCHANGED <<fCall, fColl, fGran, urls, fIdx, filenames, fCache,
                   all_filenames, fResult, fErr, uvars, ovars>>

\* line 26: earthaccess.login() raises
LoginFail ==
    /\ fpc = "login"
    /\ fLog' = Append(fLog, Ev("login", fIdx, "LoginError", FALSE)) \o Raised("LoginError")
    /\ fpc' = "raised"
    /\ fErr' = "LoginError"
    /\ UNCHANGED <<fCall, fColl, fGran, urls, fIdx, filenames, fCache,
                   all_filenames, fResult, uvars, ovars>>

\* lines 29-30: requests.get and the authenticated transfer write the file
TransferOk(content) ==
    /\ fpc = "transfer"
    /\ content \in RemoteContents(urls[fIdx])
    /\ fLog' = Append(fLog, Ev("transfer", fIdx, "", FALSE))
    /\ fCache' = [fCache EXCEPT ![Fname] = content]
    /\ fpc' = "process"
    /\ UNCHANGED <<fCall, fColl, fGran, urls, fIdx, filenames,
                   all_filenames, fResult, fErr, uvars, ovars>>

\* lines 29-30: requests.get or the transfer raises; no file is written
TransferFail ==
    /\ fpc = "transfer"
    /\ fLog' = Append(fLog, Ev("transfer", fIdx, "HTTPError", FALSE)) \o Raised("HTTPError")
    /\ fpc' = "raised"
    /\ fErr' = "HTTPError"
    /\ UNCHANGED <<fCall, fColl, fGran, urls, fIdx, filenames, fCache,
                   all_filenames, fResult, uvars, ovars>>

\* line 51: pooch.retrieve hands the file to the processor and returns what
\* it returns; the comprehension moves to the next URL
ProcessStep ==
    /\ fpc = "process"
    /\ LET p == Process(fCall.processor, Fname, fCache[Fname])
       IN  /\ fLog' = Append(fLog, Ev("process", fIdx, p.err, fCache[Fname] # Absent))
                        \o (IF p.err # "" THEN Raised(p.err) ELSE <<>>)
           /\ fErr' = p.err
           /\ filenames' = IF p.err = "" THEN Append(filenames, p.value) ELSE filenames
           /\ fpc' = IF p.err # "" THEN "raised"
                     ELSE IF fIdx < Len(urls) THEN "retrieve" ELSE "return"
           /\ fIdx' = IF p.err = "" /\ fIdx < Len(urls) THEN fIdx + 1 ELSE fIdx
    /\ UNCHANGED <<fCall, fColl, fGran, urls, fCache, all_filenames, fResult, uvars, ovars>>

\* line 53
FetchReturn ==
    /\ fpc = "return"
    /\ all_filenames' = Unwrap(filenames)
    /\ fResult' = IF fCall.fn = "_fetch_nsidc" THEN Unwrap(filenames) ELSE fResult
    /\ fpc' = IF fCall.fn = "_fetch_nsidc" THEN "done" ELSE "filter"
    /\ fLog' = Append(fLog, Ev("return", 0, "", FALSE))
    /\ UNCHANGED <<fCall, fColl, fGran, urls, fIdx, filenames, fCache,
                   fErr, uvars, ovars>>

\* lines 115-122
RgiFilter ==
    /\ fpc = "filter"
    /\ LET selected == RgiSelect(all_filenames, fCall.name)
       IN  IF fCall.name = NoName
           THEN fResult' = all_filenames /\ fErr' = "" /\ fpc' = "done"
           ELSE IF Len(selected) = 0
           THEN fResult' = fResult /\ fErr' = "ValueError" /\ fpc' = "raised"
           ELSE fResult' = Unwrap(selected) /\ fErr' = "" /\ fpc' = "done"
    /\ UNCHANGED <<fCall, fColl, fGran, urls, fIdx, filenames, fCache,
                   all_filenames, fLog, uvars, ovars>>

Init == FIdle /\ UIdle /\ OIdle

Next ==
    \/ \E c \in DirectCalls \cup RgiCalls : FetchCall(c)
    \/ TryMissingKwarg
    \/ \E out \in Outcomes(CollectionResults) : SearchDatasets(out)
    \/ \E out \in Outcomes(GranuleResults) : SearchData(out)
    \/ RetrieveHit
    \/ RetrieveMiss
    \/ LoginOk
    \/ LoginFail
    \/ \E content \in Contents : TransferOk(content)
    \/ TransferFail
    \/ ProcessStep
    \/ FetchReturn
    \/ RgiFilter

Spec == Init /\ [][Next]_vars

-----------------------------------------------------------------------------
(* the specifications of fetch_outline *)

InitOutline == OIdle /\ UIdle /\ FIdle

NextOutline ==
    \/ \E name \in CallNames, commit \in CallCommits : OutlineCall(name, commit)
    \/ OutlineValidateFail
    \/ OutlineValidateOk
    \/ OutlineRetrieveHit
    \/ OutlineRetrieveDownload
    \/ OutlineRetrieveError
    \/ \E key \in OutlineKeys : ExternalDelete(key)

SpecOutline == InitOutline /\ [][NextOutline]_vars

-----------------------------------------------------------------------------
(* _recursive_unzip on every bounded archive *)

RecursiveUnzipCall ==
    /\ ~uDone
    /\ uDone' = TRUE
    /\ uResult' = _recursive_unzip(TopName, uArchive)
    /\ UNCHANGED <<uArchive, ovars, fvars>>

InitUnzip ==
    /\ uArchive \in TopArchives
    /\ uDone = FALSE
    /\ uResult = <<>>
    /\ OIdle
    /\ FIdle

NextUnzip == RecursiveUnzipCall

SpecUnzip == InitUnzip /\ [][NextUnzip]_vars

-----------------------------------------------------------------------------
(* Properties of _recursive_unzip, under SpecUnzip *)

\* every path an unzip produced: the top-level entries and the entries of
\* the top-level .zip entries
AllUnzipOutputs ==
    Range(Unzip(TopName, uArchive)) \cup Range(InnerResults(TopName, uArchive))

\* C2: _recursive_unzip returns exactly the .shp entries among all unzip
\* outputs, those of the top-level archive and those of its .zip entries.
C2_ExactlyShpOfAllOutputs ==
    uDone => Range(uResult) = {p \in AllUnzipOutputs : Suffix(p) = ".shp"}

-----------------------------------------------------------------------------
(* Properties of fetch_outline, under SpecOutline *)

Valid(name) == name \in Range(get_glacier_names)

Calls == 1..Len(oCalls)

\* C4: a name that is not a glacier name makes fetch_outline raise
\* ValueError, with no network access and the cache unchanged; a glacier name
\* passes the validation and the fetch goes on to build its URL.
C4_UnknownNameRaisesValueError ==
    \A k \in Calls :
        IF Valid(oCalls[k].name)
        THEN oCalls[k].url # "" /\ oCalls[k].err \notin {"ValueError", "NameError"}
        ELSE /\ oCalls[k].err = "ValueError"
             /\ oCalls[k].net = 0
             /\ oCalls[k].after = oCalls[k].before

\* two calls with the same (name, commit) that both returned: the same path,
\* and no download by the later one when the file was still there
SamePairSamePath ==
    \A j \in Calls, k \in Calls :
        (/\ j < k
         /\ oCalls[j].name = oCalls[k].name
         /\ oCalls[j].commit = oCalls[k].commit
         /\ oCalls[j].err = ""
         /\ oCalls[k].err = "")
            => /\ oCalls[j].path = oCalls[k].path
               /\ (FileExists(oCalls[k].before, OutlineFname(oCalls[k].name, oCalls[k].commit))
                      => ~oCalls[k].downloaded /\ oCalls[k].net = 0)

BuiltUrl(k) == oCalls[k].url # ""

\* C6 as stated: two calls for the same name with different commit arguments
\* build distinct URLs, and two calls with the same (name, commit) return the
\* same path, the second without a download when the file still exists.
C6_DifferentCommitsDistinctUrls ==
    /\ \A j \in Calls, k \in Calls :
          (/\ BuiltUrl(j) /\ BuiltUrl(k)
           /\ oCalls[j].name = oCalls[k].name
           /\ oCalls[j].commit # oCalls[k].commit)
              => oCalls[j].url # oCalls[k].url
    /\ SamePairSamePath

\* C6 amended: two calls for the same name whose version markers differ (the
\* marker of a call is its commit argument, or the default commit when the
\* argument is omitted or empty) build distinct URLs, and two calls with the
\* same (name, commit) return the same path, the second without a download
\* when the file still exists.
C6_DifferentMarkersDistinctUrls ==
    /\ \A j \in Calls, k \in Calls :
          (/\ BuiltUrl(j) /\ BuiltUrl(k)
           /\ oCalls[j].name = oCalls[k].name
           /\ EffectiveCommit(oCalls[j].commit) # EffectiveCommit(oCalls[k].commit))
              => oCalls[j].url # oCalls[k].url
    /\ SamePairSamePath

\* three calls for one name: commits A, then B with another marker, then A
\* again, which hits the cache
C6_Witness ==
    /\ Len(oCalls) = 3
    /\ \A k \in Calls : oCalls[k].name = "helheim" /\ oCalls[k].err = ""
    /\ EffectiveCommit(oCalls[1].commit) # EffectiveCommit(oCalls[2].commit)
    /\ oCalls[1].commit = oCalls[3].commit
    /\ oCalls[1].downloaded
    /\ ~oCalls[3].downloaded

\* the first call for the name of call k that returned
FirstReturned(k) ==
    CHOOSE f \in Calls :
        /\ oCalls[f].name = oCalls[k].name
        /\ oCalls[f].err = ""
        /\ \A g \in 1..(f - 1) : ~(oCalls[g].name = oCalls[k].name /\ oCalls[g].err = "")

\* C10: the outline cache is keyed by the glacier name alone.  With no
\* deletion from outside, only the first call that returns for a name writes
\* the file; every later call for that name returns the same path without a
\* download, whatever its commit, and the file holds the first call's commit.
C10_CacheKeyedByNameOnly ==
    ~oDeleted =>
        \A k \in Calls :
            oCalls[k].err = "" =>
                LET f == FirstReturned(k)
                    key == OutlineFname(oCalls[k].name, oCalls[k].commit)
                IN  /\ oCalls[k].downloaded <=> k = f
                    /\ oCalls[k].path = oCalls[f].path
                    /\ oCalls[k].after[key] = EffectiveCommit(oCalls[f].commit)
                    /\ oCache[key] = EffectiveCommit(oCalls[f].commit)

\* a later call asks for another commit and gets the first commit's file
C10_Witness ==
    /\ ~oDeleted
    /\ \E f \in Calls, k \in Calls :
          /\ f < k
          /\ oCalls[f].name = oCalls[k].name
          /\ oCalls[f].downloaded
          /\ oCalls[k].err = ""
          /\ ~oCalls[k].downloaded
          /\ EffectiveCommit(oCalls[k].commit) # EffectiveCommit(oCalls[f].commit)
          /\ oCache[OutlineFname(oCalls[k].name, oCalls[k].commit)]
                = EffectiveCommit(oCalls[f].commit)

-----------------------------------------------------------------------------
(* Properties of _fetch_nsidc and fetch_randolph_glacier_inventory, under Spec *)

Logged(ev) == \E k \in 1..Len(fLog) : fLog[k].ev = ev

\* _fetch_nsidc has returned
Returned == Logged("return")

\* the URLs are resolved and no exception has ended the call
Resolved == fpc \in {"retrieve", "login", "transfer", "process", "return", "filter", "done"}

BothSupplied == fCall.hasExtra /\ fCall.hasFilename

\* the paths of one processor invocation's outputs
OutputsOf(v) ==
    IF v.kind = "path" THEN <<v.path>> ELSE [k \in 1..Len(v.items) |-> v.items[k].path]

\* all processor outputs across all URLs, in order
Outs == Flatten([k \in 1..Len(filenames) |-> OutputsOf(filenames[k])])

\* C1: _fetch_nsidc returns the one path when exactly one processed output
\* exists in total, and the flat ordered list of paths when more than one
\* exists.
C1_FlatAndUnwrapped ==
    Returned =>
        /\ Len(Outs) = 1 => all_filenames = PathV(Outs[1])
        /\ Len(Outs) > 1 => all_filenames = ListV(PathVs(Outs))

\* C3: with both extra and filename supplied only search_datasets is used
\* and the one URL is the first collection's base URL + extra + filename;
\* otherwise only search_data is used and the URLs are the data links of the
\* first granule record, in order.
C3_StrategyByArgumentsOnly ==
    Resolved =>
        IF BothSupplied
        THEN /\ ~Logged("search_data")
             /\ Logged("search_datasets")
             /\ urls = <<fColl.results[1].getData[1] \o fCall.extra \o <<fCall.filename>>>>
        ELSE /\ ~Logged("search_datasets")
             /\ Logged("search_data")
             /\ urls = fGran.results[1].links

Collaborators == {"search_datasets", "search_data", "login", "transfer"}

\* C5: an exception raised by a catalog query, by reading its record, by
\* the login or by the transfer ends the call with that exception: nothing
\* follows it.
C5_EveryFailureSurfaces ==
    \A k \in 2..Len(fLog) :
        (fLog[k].ev = "raise" /\ fLog[k - 1].ev \in Collaborators)
            => /\ k = Len(fLog)
               /\ fpc = "raised"
               /\ fErr = fLog[k].what

\* a catalog query answered with zero records
EmptyAnswer ==
    \E k \in 1..Len(fLog) :
        /\ fLog[k].ev \in {"search_datasets", "search_data"}
        /\ fLog[k].what = ""
        /\ fLog[k].i = 0

RetrievalEvents == {"check", "login", "transfer", "process"}

\* C7: when a catalog query returns zero records the call ends with
\* IndexError, under either strategy: no URL, no cache lookup, login,
\* transfer or processing, and nothing returned.
C7_EmptyAnswerIsIndexError ==
    EmptyAnswer =>
        /\ fpc = "raised"
        /\ fErr = "IndexError"
        /\ urls = <<>>
        /\ \A k \in 1..Len(fLog) : fLog[k].ev \notin RetrievalEvents
        /\ ~Returned
        /\ filenames = <<>>
        /\ all_filenames = NoValue
        /\ fResult = NoValue

\* the collection query of the metadata strategy came back empty
C7_Witness ==
    /\ BothSupplied
    /\ fLog = <<Ev("search_datasets", 0, "", FALSE), Ev("raise", 0, "IndexError", FALSE)>>
    /\ fpc = "raised"

\* the regions the fetch returned that the name matches
RgiMatching ==
    LET Test(f) == NameIn(fCall.name, f)
    IN  SelectSeq(PathVs(Outs), Test)

\* C8: with a name, fetch_randolph_glacier_inventory raises ValueError
\* exactly when the name matches none of the returned regions, and otherwise
\* returns the matching paths, unwrapped when there is one; without a name
\* it returns all the extracted paths.
C8_RgiFiltersByName ==
    (fCall.fn = "fetch_randolph_glacier_inventory" /\ Returned /\ fpc \in {"done", "raised"})
        => IF fCall.name = NoName
           THEN fpc = "done" /\ fResult = ListV(PathVs(Outs))
           ELSE /\ (fpc = "raised" /\ fErr = "ValueError") <=> Len(RgiMatching) = 0
                /\ fpc = "done" => fResult = Unwrap(RgiMatching)

\* the retrieval events of URL i, in order
EventsOf(i) ==
    LET Test(e) == e.ev \in RetrievalEvents /\ e.i = i
    IN  SelectSeq(fLog, Test)

Kinds(s) == [k \in 1..Len(s) |-> s[k].ev]

\* C9: resolution ends before any retrieval; the URLs are handled one at a
\* time in resolution order; the downloader (login, then transfer) runs for a
\* URL exactly when the cache holds no file with its basename; the processor
\* runs once per URL, on a file that is there, before the next URL is touched.
C9_StrictlyOrderedSteps ==
    /\ \A j \in 1..Len(fLog), k \in 1..Len(fLog) :
          (j < k /\ fLog[j].ev \in RetrievalEvents)
              => /\ fLog[k].ev \notin {"search_datasets", "search_data"}
                 /\ fLog[k].ev \in RetrievalEvents => fLog[j].i <= fLog[k].i
    /\ \A k \in 1..Len(fLog) :
          fLog[k].ev \in RetrievalEvents =>
              /\ fLog[k].i \in 1..Len(urls)
              /\ \A i \in 1..(fLog[k].i - 1) :
                    Kinds(EventsOf(i))[Len(EventsOf(i))] = "process"
    /\ \A i \in 1..Len(urls) :
          LET es == EventsOf(i)
          IN  Len(es) > 0 =>
                /\ es[1].ev = "check"
                /\ IF es[1].present
                   THEN Kinds(es) \in {<<"check">>, <<"check", "process">>}
                   ELSE Kinds(es) \in {<<"check">>, <<"check", "login">>,
                                       <<"check", "login", "transfer">>,
                                       <<"check", "login", "transfer", "process">>}
                /\ \A k \in 1..Len(es) : es[k].ev = "process" => es[k].present
    /\ fpc = "login" => EventsOf(fIdx)[1].present = FALSE
    /\ Returned =>
          \A i \in 1..Len(urls) : Kinds(EventsOf(i))[Len(EventsOf(i))] = "process"

\* two links with one basename: the first is downloaded, the second is found
\* in the cache, and both are processed
C9_Witness ==
    /\ fpc = "done"
    /\ Len(urls) = 2
    /\ Kinds(EventsOf(1)) = <<"check", "login", "transfer", "process">>
    /\ Kinds(EventsOf(2)) = <<"check", "process">>

====
